---------------------------- MODULE Spec2Model ----------------------------
(***************************************************************************)
(* The buffer cache of kernel/bio.c (hashed into NBUCKET bucket lists,     *)
(* recycled by a time stamp) as a state machine.  Every context executes   *)
(* bread/bget, bwrite, brelse, bpin and bunpin.  A step of a context runs  *)
(* from one point where another context can interfere to the next: a spin  *)
(* lock acquisition, a sleep lock acquisition, and every access to a field *)
(* that a context holding a different lock may access at the same time     *)
(* (the pool scan of bget against refcnt--, the unlinking and the stamp of *)
(* brelse).  pc values carry the source line the context is about to run.  *)
(***************************************************************************)
EXTENDS Integers, FiniteSets, TLC

\* ------------------------------------------------------------------ sizes
NBUCKET == 17       \* bio.c:28
NBUF == 2           \* size of bcache.buf (param.h), kept small
NCTX == 2           \* number of kernel contexts (processes)
MaxTicks == 1       \* the clock is stopped at this value
MaxPin == 1         \* outstanding bpin calls per buffer
MaxCalls == 7       \* calls into the buffer cache in one run
NPAGE == 2          \* pages between end and PHYSTOP
MaxKCalls == 5      \* calls into the page allocator in one run

Ctx == 1..NCTX
\* pointers: 0 is the null pointer, 1..NBUF is &bcache.buf[i-1],
\* NBUF+1+k is &bcache.bucket[k]
NULL == 0
Bufs == 1..NBUF
bucket(k) == NBUF + 1 + k
Heads == {bucket(k) : k \in 0..(NBUCKET - 1)}
Nodes == Bufs \cup Heads

\* the (dev, blockno) pairs the contexts ask for: 1 and 18 share bucket 1
Keys == {<<1, 1>>, <<1, 18>>, <<1, 2>>}
Data == {0, 1}

\* physical memory: end is the first address after the kernel, the allocator
\* manages the whole pages of [end, PHYSTOP)
PGSIZE == 4096
PGROUNDUP(sz) == ((sz + PGSIZE - 1) \div PGSIZE) * PGSIZE
end == PGSIZE + 8
PHYSTOP == (2 + NPAGE) * PGSIZE
Pages == {n * PGSIZE : n \in (PGROUNDUP(end) \div PGSIZE)..((PHYSTOP \div PGSIZE) - 1)}
\* the word 0x0505050505050505 that kalloc's memset leaves in r->next
JUNK == -1
\* the addresses kfree is called with: the pages, an aligned address below
\* end, an aligned address at PHYSTOP, an address inside a page
Addrs == Pages \cup {PGSIZE, PHYSTOP, PGROUNDUP(end) + 8}

VARIABLES
  dev, blockno, valid, refcnt, bticks, data,  \* struct buf fields of bcache.buf[]
  next, prev,                                 \* list links of bufs and bucket heads
  lockp,                                      \* b->lock: pid of the holder, 0 if free
  bucketlock, bcachelock,                     \* spin locks: holder, 0 if free
  ticks,                                      \* the kernel's clock
  disk,                                       \* block contents on the disk
  panicked,                                   \* "" or the panic message
  pc, rdev, rblockno, key, b, lb, i,          \* per context: position and locals
  pinned,                                     \* per buffer: bpin calls not yet undone by bunpin
  calls,                                      \* calls made so far
  ref, freelist, pgnext,                      \* kalloc.c: ref[], kmem.freelist, each page's run.next
  kmemlock,                                   \* kmem.lock: holder, 0 if free
  kpanicked,                                  \* "" or the allocator's panic message
  kpc, pa, r, count,                          \* per context: position and locals
  kret,                                       \* per context: what its last kalloc returned, junk before
  owners, misused,                            \* references handed out and not given back; a call without one
  kcalls                                      \* calls made so far

bufvars == <<dev, blockno, valid, refcnt, bticks, data>>
linkvars == <<next, prev>>
lockvars == <<lockp, bucketlock, bcachelock>>
locals == <<rdev, rblockno, key, b, lb, i>>
biovars == <<dev, blockno, valid, refcnt, bticks, data, next, prev, lockp,
             bucketlock, bcachelock, ticks, disk, panicked, pc, rdev, rblockno,
             key, b, lb, i, pinned, calls>>
klocals == <<pa, r, count>>
kmemvars == <<ref, freelist, pgnext, kmemlock, kpanicked, kpc, pa, r, count, kret,
              owners, misused, kcalls>>
vars == <<biovars, kmemvars>>

\* ------------------------------------------------------------- helpers
\* fields of a struct buf that is a bucket head are the zeroes of static storage
DevOf(n) == IF n \in Bufs THEN dev[n] ELSE 0
BlocknoOf(n) == IF n \in Bufs THEN blockno[n] ELSE 0

holdingsleep(c, n) == lockp[n] = c

panic(msg) == panicked' = msg

Running == panicked = ""

\* back to the caller: the locals are dead
Return(c) ==
  /\ pc' = [pc EXCEPT ![c] = "idle"]
  /\ rdev' = [rdev EXCEPT ![c] = 0]
  /\ rblockno' = [rblockno EXCEPT ![c] = 0]
  /\ key' = [key EXCEPT ![c] = 0]
  /\ b' = [b EXCEPT ![c] = NULL]
  /\ lb' = [lb EXCEPT ![c] = NULL]
  /\ i' = [i EXCEPT ![c] = 0]

Goto(c, l) == pc' = [pc EXCEPT ![c] = l]

\* an idle context calls into the buffer cache
Call(c) == Running /\ pc[c] = "idle" /\ calls < MaxCalls /\ calls' = calls + 1

\* ------------------------------------------------------------------ kinit
\* ref[] is zeroed static storage; freerange calls kfree on every page in
\* ascending order, and kfree of a page whose count is 0 pushes it
kinit ==
  /\ ref = [n \in 0..((PHYSTOP \div PGSIZE) - 1) |-> 0]
  /\ freelist = PHYSTOP - PGSIZE
  /\ pgnext = [p \in Pages |-> IF p = PGROUNDUP(end) THEN 0 ELSE p - PGSIZE]
  /\ kmemlock = 0
  /\ kpanicked = ""
  /\ kpc = [c \in Ctx |-> "idle"]
  /\ pa = [c \in Ctx |-> 0]
  /\ r = [c \in Ctx |-> 0]
  /\ count = [c \in Ctx |-> 0]
  /\ kret = [c \in Ctx |-> JUNK]
  /\ owners = [p \in Pages |-> 0]
  /\ misused = FALSE
  /\ kcalls = 0

\* ------------------------------------------------------------------ binit
Init ==
  /\ kinit
  /\ dev = [n \in Bufs |-> 0]
  /\ blockno = [n \in Bufs |-> 0]
  /\ valid = [n \in Bufs |-> 0]
  /\ refcnt = [n \in Bufs |-> 0]
  /\ bticks = [n \in Bufs |-> 0]
  /\ data = [n \in Bufs |-> 0]
  /\ next = [n \in Nodes |-> IF n \in Heads THEN n ELSE NULL]
  /\ prev = [n \in Nodes |-> IF n \in Heads THEN n ELSE NULL]
  /\ lockp = [n \in Bufs |-> 0]
  /\ bucketlock = [k \in 0..(NBUCKET - 1) |-> 0]
  /\ bcachelock = 0
  /\ ticks = 0
  /\ disk = [k \in Keys |-> 0]
  /\ panicked = ""
  /\ pc = [c \in Ctx |-> "idle"]
  /\ rdev = [c \in Ctx |-> 0]
  /\ rblockno = [c \in Ctx |-> 0]
  /\ key = [c \in Ctx |-> 0]
  /\ b = [c \in Ctx |-> NULL]
  /\ lb = [c \in Ctx |-> NULL]
  /\ i = [c \in Ctx |-> 0]
  /\ pinned = [n \in Bufs |-> 0]
  /\ calls = 0

\* the timer interrupt
clockintr ==
  /\ Running
  /\ ticks < MaxTicks
  /\ ticks' = ticks + 1
  /\ UNCHANGED <<bufvars, linkvars, lockvars, disk, panicked, pc, locals, pinned, calls>>
  /\ UNCHANGED kmemvars

\* refcnt is a uint that the code only increments, decrements and compares
\* with 0.  It is kept as the representative of its residue mod 2^32 nearest
\* to 0 (0 - 1 is written -1 and stands for 2^32 - 1), so "nonzero" is # 0.
Inc(x) == x + 1
Dec(x) == x - 1

\* ------------------------------------------------------------------ bread / bget
\* bread calls bget(dev, blockno): key = blockno % NBUCKET (lines 111-115, 65-68).
\* A caller does not ask for a block it holds itself (it would sleep on its
\* own lock).
bread(c, d, bn) ==
  /\ Call(c)
  /\ \A n \in Bufs : holdingsleep(c, n) => ~(dev[n] = d /\ blockno[n] = bn)
  /\ rdev' = [rdev EXCEPT ![c] = d]
  /\ rblockno' = [rblockno EXCEPT ![c] = bn]
  /\ key' = [key EXCEPT ![c] = bn % NBUCKET]
  /\ Goto(c, "bget_71")
  /\ UNCHANGED <<bufvars, linkvars, lockvars, ticks, disk, panicked, b, lb, i, pinned>>
  /\ UNCHANGED kmemvars

\* line 71, and the loop's b = bcache.bucket[key].next
bget_acquire(c) ==
  /\ Running
  /\ pc[c] = "bget_71"
  /\ bucketlock[key[c]] = 0
  /\ bucketlock' = [bucketlock EXCEPT ![key[c]] = c]
  /\ b' = [b EXCEPT ![c] = next[bucket(key[c])]]
  /\ Goto(c, "bget_72")
  /\ UNCHANGED <<bufvars, linkvars, lockp, bcachelock, ticks, disk, panicked,
                 rdev, rblockno, key, lb, i, pinned, calls>>
  /\ UNCHANGED kmemvars

\* line 73
Cached(n, d, bn) == DevOf(n) = d /\ BlocknoOf(n) = bn

\* lines 72-75: one iteration of the walk along the bucket list; on a match
\* the reference is taken and the bucket lock released.  Reading b->dev
\* through a null b traps.
bget_loop(c) ==
  /\ Running
  /\ pc[c] = "bget_72"
  /\ IF b[c] = bucket(key[c])
       THEN /\ Goto(c, "bget_83")
            /\ UNCHANGED <<panicked, b, refcnt, bucketlock>>
       ELSE IF b[c] = NULL
         THEN /\ panic("kerneltrap")
              /\ UNCHANGED <<pc, b, refcnt, bucketlock>>
         ELSE IF Cached(b[c], rdev[c], rblockno[c])
           THEN /\ refcnt' = [refcnt EXCEPT ![b[c]] = Inc(@)]
                /\ bucketlock' = [bucketlock EXCEPT ![key[c]] = 0]
                /\ Goto(c, "bget_76")
                /\ UNCHANGED <<panicked, b>>
           ELSE /\ b' = [b EXCEPT ![c] = next[b[c]]]
                /\ UNCHANGED <<panicked, pc, refcnt, bucketlock>>
  /\ UNCHANGED <<dev, blockno, valid, bticks, data, linkvars, lockp, bcachelock,
                 ticks, disk, rdev, rblockno, key, lb, i, pinned, calls>>
  /\ UNCHANGED kmemvars

\* bread, lines 116 and 120, run by the context that has just got b's lock:
\* a valid buffer is returned at once, an invalid one goes to the disk first
bread_check(c) ==
  IF valid[b[c]] = 0
    THEN Goto(c, "bread_117") /\ UNCHANGED locals
    ELSE Return(c)

\* lines 76-77: acquiresleep, return to bread
bget_hit_sleep(c) ==
  /\ Running
  /\ pc[c] = "bget_76"
  /\ lockp[b[c]] = 0
  /\ lockp' = [lockp EXCEPT ![b[c]] = c]
  /\ bread_check(c)
  /\ UNCHANGED <<bufvars, linkvars, bucketlock, bcachelock, ticks, disk,
                 panicked, pinned, calls>>
  /\ UNCHANGED kmemvars

\* bget that drops the bucket lock before it takes the pool lock
bget_miss_unlocked(c) ==
  /\ Running
  /\ pc[c] = "bget_83"
  /\ bcachelock = 0
  /\ bcachelock' = c
  /\ bucketlock' = [bucketlock EXCEPT ![key[c]] = 0]
  /\ lb' = [lb EXCEPT ![c] = NULL]
  /\ i' = [i EXCEPT ![c] = 0]
  /\ Goto(c, "bget_85")
  /\ UNCHANGED <<bufvars, linkvars, lockp, ticks, disk, panicked,
                 rdev, rblockno, key, b, pinned, calls>>
  /\ UNCHANGED kmemvars

\* lines 83-85: not cached, take the pool lock and start the scan
bget_miss(c) ==
  /\ Running
  /\ pc[c] = "bget_83"
  /\ bcachelock = 0
  /\ bcachelock' = c
  /\ lb' = [lb EXCEPT ![c] = NULL]
  /\ i' = [i EXCEPT ![c] = 0]
  /\ Goto(c, "bget_85")
  /\ UNCHANGED <<bufvars, linkvars, lockp, bucketlock, ticks, disk, panicked,
                 rdev, rblockno, key, b, pinned, calls>>
  /\ UNCHANGED kmemvars

\* line 87
Older(l, n) ==
  \/ (l = NULL /\ refcnt[n] = 0)
  \/ (refcnt[n] = 0 /\ bticks[l] > bticks[n])

\* lines 85-89: one iteration of the scan over bcache.buf
bget_scan(c) ==
  /\ Running
  /\ pc[c] = "bget_85"
  /\ i[c] < NBUF
  /\ b' = [b EXCEPT ![c] = i[c] + 1]
  /\ lb' = [lb EXCEPT ![c] = IF Older(lb[c], i[c] + 1) THEN i[c] + 1 ELSE @]
  /\ i' = [i EXCEPT ![c] = @ + 1]
  /\ UNCHANGED <<bufvars, linkvars, lockvars, ticks, disk, panicked, pc, rdev,
                 rblockno, key, pinned, calls>>
  /\ UNCHANGED kmemvars

\* lines 91-92 and 106: the scan is over
bget_choose(c) ==
  /\ Running
  /\ pc[c] = "bget_85"
  /\ i[c] = NBUF
  /\ b' = [b EXCEPT ![c] = lb[c]]
  /\ IF lb[c] # NULL
       THEN Goto(c, "bget_93") /\ UNCHANGED panicked
       ELSE panic("bget: no buffers") /\ UNCHANGED pc
  /\ UNCHANGED <<bufvars, linkvars, lockvars, ticks, disk, rdev, rblockno,
                 key, lb, i, pinned, calls>>
  /\ UNCHANGED kmemvars

\* lines 97-100: push n on the front of bucket k's list
LinkNext(n, k) ==
  [next EXCEPT ![n] = next[bucket(k)], ![bucket(k)] = n]
LinkPrev(n, k) ==
  IF next[bucket(k)] = n
    THEN [prev EXCEPT ![n] = n]
    ELSE [prev EXCEPT ![n] = bucket(k), ![next[bucket(k)]] = n]

\* lines 93-102: bind the chosen buffer to the block, link it, release both
\* locks.  key, lb and i are dead from here on.  A null bucket[key].next
\* traps at line 99, a null pointer being unmapped in the kernel.
bget_recycle(c) ==
  /\ Running
  /\ pc[c] = "bget_93"
  /\ IF next[bucket(key[c])] = NULL
       THEN /\ next' = [next EXCEPT ![b[c]] = NULL]
            /\ prev' = [prev EXCEPT ![b[c]] = bucket(key[c])]
            /\ panic("kerneltrap")
            /\ UNCHANGED <<pc, locals, bcachelock, bucketlock>>
       ELSE /\ next' = LinkNext(b[c], key[c])
            /\ prev' = LinkPrev(b[c], key[c])
            /\ bcachelock' = 0
            /\ bucketlock' = [bucketlock EXCEPT ![key[c]] = 0]
            /\ pc' = [pc EXCEPT ![c] = "bget_103"]
            /\ key' = [key EXCEPT ![c] = 0]
            /\ lb' = [lb EXCEPT ![c] = NULL]
            /\ i' = [i EXCEPT ![c] = 0]
            /\ UNCHANGED <<panicked, b, rdev, rblockno>>
  /\ dev' = [dev EXCEPT ![b[c]] = rdev[c]]
  /\ blockno' = [blockno EXCEPT ![b[c]] = rblockno[c]]
  /\ valid' = [valid EXCEPT ![b[c]] = 0]
  /\ refcnt' = [refcnt EXCEPT ![b[c]] = 1]
  /\ UNCHANGED <<bticks, data, lockp, ticks, disk, pinned, calls>>
  /\ UNCHANGED kmemvars

\* lines 103-104: acquiresleep, return to bread
bget_miss_sleep(c) ==
  /\ Running
  /\ pc[c] = "bget_103"
  /\ lockp[b[c]] = 0
  /\ lockp' = [lockp EXCEPT ![b[c]] = c]
  /\ bread_check(c)
  /\ UNCHANGED <<bufvars, linkvars, bucketlock, bcachelock, ticks, disk,
                 panicked, pinned, calls>>
  /\ UNCHANGED kmemvars

\* the disk collaborator: a block never written reads as 0
DiskAt(d, bn) == IF <<d, bn>> \in DOMAIN disk THEN disk[<<d, bn>>] ELSE 0

\* bread_fill without line 118
bread_fill_stale(c) ==
  /\ Running
  /\ pc[c] = "bread_117"
  /\ data' = [data EXCEPT ![b[c]] = DiskAt(dev[b[c]], blockno[b[c]])]
  /\ Return(c)
  /\ UNCHANGED <<dev, blockno, valid, refcnt, bticks, linkvars, lockvars, ticks,
                 disk, panicked, pinned, calls>>
  /\ UNCHANGED kmemvars

\* lines 117-120: virtio_disk_rw(b, 0); b->valid = 1; return b
bread_fill(c) ==
  /\ Running
  /\ pc[c] = "bread_117"
  /\ data' = [data EXCEPT ![b[c]] = DiskAt(dev[b[c]], blockno[b[c]])]
  /\ valid' = [valid EXCEPT ![b[c]] = 1]
  /\ Return(c)
  /\ UNCHANGED <<dev, blockno, refcnt, bticks, linkvars, lockvars, ticks, disk,
                 panicked, pinned, calls>>
  /\ UNCHANGED kmemvars

\* ------------------------------------------------------------------ bwrite
\* bwrite without lines 127-128
bwrite_unchecked(c, n) ==
  /\ Call(c)
  /\ disk' = [disk EXCEPT ![<<dev[n], blockno[n]>>] = data[n]]
  /\ UNCHANGED <<bufvars, linkvars, lockvars, ticks, panicked, pc, locals, pinned>>
  /\ UNCHANGED kmemvars

\* lines 125-130
bwrite(c, n) ==
  /\ Call(c)
  /\ IF ~holdingsleep(c, n)
       THEN panic("bwrite") /\ UNCHANGED disk
       ELSE /\ disk' = [disk EXCEPT ![<<dev[n], blockno[n]>>] = data[n]]
            /\ UNCHANGED panicked
  /\ UNCHANGED <<bufvars, linkvars, lockvars, ticks, pc, locals, pinned>>
  /\ UNCHANGED kmemvars

\* the holder of the buffer's lock changes its contents (the file system)
modify(c, n) ==
  /\ Call(c)
  /\ holdingsleep(c, n)
  /\ \E v \in Data \ {data[n]} : data' = [data EXCEPT ![n] = v]
  /\ UNCHANGED <<dev, blockno, valid, refcnt, bticks, linkvars, lockvars, ticks,
                 disk, panicked, pc, locals, pinned>>
  /\ UNCHANGED kmemvars

\* ------------------------------------------------------------------ brelse
\* lines 135-140
brelse(c, n) ==
  /\ Call(c)
  /\ IF ~holdingsleep(c, n)
       THEN panic("brelse") /\ UNCHANGED <<lockp, pc, b>>
       ELSE /\ lockp' = [lockp EXCEPT ![n] = 0]
            /\ b' = [b EXCEPT ![c] = n]
            /\ Goto(c, "brelse_142")
            /\ UNCHANGED panicked
  /\ UNCHANGED <<bufvars, linkvars, bucketlock, bcachelock, ticks, disk, rdev,
                 rblockno, key, lb, i, pinned>>
  /\ UNCHANGED kmemvars

\* lines 142-143
brelse_acquire(c) ==
  /\ Running
  /\ pc[c] = "brelse_142"
  /\ bucketlock[BlocknoOf(b[c]) % NBUCKET] = 0
  /\ key' = [key EXCEPT ![c] = BlocknoOf(b[c]) % NBUCKET]
  /\ bucketlock' = [bucketlock EXCEPT ![BlocknoOf(b[c]) % NBUCKET] = c]
  /\ Goto(c, "brelse_144")
  /\ UNCHANGED <<bufvars, linkvars, lockp, bcachelock, ticks, disk, panicked,
                 rdev, rblockno, b, lb, i, pinned, calls>>
  /\ UNCHANGED kmemvars

\* lines 144-145, and 153 when the count stays nonzero
brelse_dec(c) ==
  /\ Running
  /\ pc[c] = "brelse_144"
  /\ refcnt' = [refcnt EXCEPT ![b[c]] = Dec(@)]
  /\ IF Dec(refcnt[b[c]]) = 0
       THEN Goto(c, "brelse_147") /\ UNCHANGED <<locals, bucketlock>>
       ELSE /\ bucketlock' = [bucketlock EXCEPT ![key[c]] = 0]
            /\ Return(c)
  /\ UNCHANGED <<dev, blockno, valid, bticks, data, linkvars, lockp, bcachelock,
                 ticks, disk, panicked, pinned, calls>>
  /\ UNCHANGED kmemvars

\* lines 147-150: the four stores, in order, of unlinking n
UnlinkPrev(n) ==
  [[prev EXCEPT ![next[n]] = prev[n]] EXCEPT ![n] = NULL]
UnlinkNext(n) ==
  [[next EXCEPT ![prev[n]] = next[n]] EXCEPT ![n] = NULL]

\* lines 147-150; a null b->next traps at line 147, a null b->prev at 148
brelse_unlink(c) ==
  /\ Running
  /\ pc[c] = "brelse_147"
  /\ IF next[b[c]] = NULL
       THEN panic("kerneltrap") /\ UNCHANGED <<pc, next, prev>>
       ELSE IF prev[b[c]] = NULL
         THEN /\ prev' = [prev EXCEPT ![next[b[c]]] = NULL]
              /\ panic("kerneltrap")
              /\ UNCHANGED <<pc, next>>
       ELSE /\ prev' = UnlinkPrev(b[c])
            /\ next' = UnlinkNext(b[c])
            /\ Goto(c, "brelse_151")
            /\ UNCHANGED panicked
  /\ UNCHANGED <<bufvars, lockvars, ticks, disk, locals, pinned, calls>>
  /\ UNCHANGED kmemvars

\* lines 151-154
brelse_stamp(c) ==
  /\ Running
  /\ pc[c] = "brelse_151"
  /\ bticks' = [bticks EXCEPT ![b[c]] = ticks]
  /\ bucketlock' = [bucketlock EXCEPT ![key[c]] = 0]
  /\ Return(c)
  /\ UNCHANGED <<dev, blockno, valid, refcnt, data, linkvars, lockp, bcachelock,
                 ticks, disk, panicked, pinned, calls>>
  /\ UNCHANGED kmemvars

\* ------------------------------------------------------------------ bpin / bunpin
\* lines 157-162; the caller holds the buffer (as log_write does)
bpin(c, n) ==
  /\ Call(c)
  /\ holdingsleep(c, n)
  /\ pinned[n] < MaxPin
  /\ bucketlock[blockno[n] % NBUCKET] = 0
  /\ refcnt' = [refcnt EXCEPT ![n] = Inc(@)]
  /\ pinned' = [pinned EXCEPT ![n] = @ + 1]
  /\ UNCHANGED <<dev, blockno, valid, bticks, data, linkvars, lockvars, ticks,
                 disk, panicked, pc, locals>>
  /\ UNCHANGED kmemvars

\* lines 165-170; undoes an earlier bpin
bunpin(c, n) ==
  /\ Call(c)
  /\ pinned[n] > 0
  /\ bucketlock[blockno[n] % NBUCKET] = 0
  /\ refcnt' = [refcnt EXCEPT ![n] = Dec(@)]
  /\ pinned' = [pinned EXCEPT ![n] = @ - 1]
  /\ UNCHANGED <<dev, blockno, valid, bticks, data, linkvars, lockvars, ticks,
                 disk, panicked, pc, locals>>
  /\ UNCHANGED kmemvars

\* ------------------------------------------------------------------ the system
Step(c) ==
  \/ \E k \in Keys : bread(c, k[1], k[2])
  \/ bget_acquire(c)
  \/ bget_loop(c)
  \/ bget_hit_sleep(c)
  \/ bget_miss(c)
  \/ bget_scan(c)
  \/ bget_choose(c)
  \/ bget_recycle(c)
  \/ bget_miss_sleep(c)
  \/ bread_fill(c)
  \/ \E n \in Bufs : bwrite(c, n)
  \/ \E n \in Bufs : modify(c, n)
  \/ \E n \in Bufs : brelse(c, n)
  \/ brelse_acquire(c)
  \/ brelse_dec(c)
  \/ brelse_unlink(c)
  \/ brelse_stamp(c)
  \/ \E n \in Bufs : bpin(c, n)
  \/ \E n \in Bufs : bunpin(c, n)

Next == clockintr \/ \E c \in Ctx : Step(c)

Spec == Init /\ [][Next]_vars

\* the steps of a context that is inside a buffer cache function: the
\* scheduler runs every runnable context again and again
Proceed(c) ==
  \/ bget_acquire(c)
  \/ bget_loop(c)
  \/ bget_hit_sleep(c)
  \/ bget_miss(c)
  \/ bget_scan(c)
  \/ bget_choose(c)
  \/ bget_recycle(c)
  \/ bget_miss_sleep(c)
  \/ bread_fill(c)
  \/ brelse_acquire(c)
  \/ brelse_dec(c)
  \/ brelse_unlink(c)
  \/ brelse_stamp(c)

\* the calls of callers that only read the blocks
ReadCall(c) ==
  \/ \E k \in Keys : bread(c, k[1], k[2])
  \/ \E n \in Bufs : brelse(c, n)
  \/ \E n \in Bufs : bpin(c, n)
  \/ \E n \in Bufs : bunpin(c, n)

FairNext == clockintr \/ \E c \in Ctx : (ReadCall(c) \/ Proceed(c))

FairSpec == Init /\ [][FairNext]_vars /\ \A c \in Ctx : WF_vars(Proceed(c))

\* ------------------------------------------------------------------ kalloc.c
getref(a) == ref[a \div PGSIZE]

KRunning == kpanicked = ""

KReturn(c) ==
  /\ kpc' = [kpc EXCEPT ![c] = "idle"]
  /\ pa' = [pa EXCEPT ![c] = 0]
  /\ r' = [r EXCEPT ![c] = 0]
  /\ count' = [count EXCEPT ![c] = 0]

KGoto(c, l) == kpc' = [kpc EXCEPT ![c] = l]

\* an idle context calls into the allocator
KCall(c) == KRunning /\ kpc[c] = "idle" /\ kcalls < MaxKCalls /\ kcalls' = kcalls + 1

\* the caller of addref, subref or kfree gives or takes a reference of page p:
\* it is misusing the allocator when nobody holds one
Takes(p) ==
  /\ owners' = [owners EXCEPT ![p] = IF @ > 0 THEN @ - 1 ELSE 0]
  /\ misused' = (misused \/ owners[p] = 0)

\* addref, line 28: the read of getref(pa)
addref(c, p) ==
  /\ KCall(c)
  /\ pa' = [pa EXCEPT ![c] = p]
  /\ count' = [count EXCEPT ![c] = getref(p)]
  /\ KGoto(c, "addref_28")
  /\ misused' = (misused \/ owners[p] = 0)
  /\ UNCHANGED <<ref, freelist, pgnext, kmemlock, kpanicked, r, kret, owners>>
  /\ UNCHANGED biovars

\* addref, line 28: the store
addref_store(c) ==
  /\ KRunning
  /\ kpc[c] = "addref_28"
  /\ ref' = [ref EXCEPT ![pa[c] \div PGSIZE] = count[c] + 1]
  /\ owners' = [owners EXCEPT ![pa[c]] = @ + 1]
  /\ KReturn(c)
  /\ UNCHANGED <<freelist, pgnext, kmemlock, kpanicked, kret, misused, kcalls>>
  /\ UNCHANGED biovars

\* subref, line 33
subref(c, p) ==
  /\ KCall(c)
  /\ pa' = [pa EXCEPT ![c] = p]
  /\ count' = [count EXCEPT ![c] = getref(p)]
  /\ KGoto(c, "subref_34")
  /\ Takes(p)
  /\ UNCHANGED <<ref, freelist, pgnext, kmemlock, kpanicked, r, kret>>
  /\ UNCHANGED biovars

\* subref, lines 34-35
subref_store(c) ==
  /\ KRunning
  /\ kpc[c] = "subref_34"
  /\ ref' = IF count[c] > 0
              THEN [ref EXCEPT ![pa[c] \div PGSIZE] = count[c] - 1]
              ELSE ref
  /\ KReturn(c)
  /\ UNCHANGED <<freelist, pgnext, kmemlock, kpanicked, kret, owners, misused, kcalls>>
  /\ UNCHANGED biovars

\* kfree that checks the address after it has taken the lock
kfree_check_late(c, a) ==
  /\ KCall(c)
  /\ kmemlock = 0
  /\ kmemlock' = c
  /\ IF a % PGSIZE # 0 \/ a < end \/ a >= PHYSTOP
       THEN /\ kpanicked' = "kfree"
            /\ UNCHANGED <<kpc, klocals, owners, misused>>
       ELSE /\ pa' = [pa EXCEPT ![c] = a]
            /\ count' = [count EXCEPT ![c] = getref(a)]
            /\ KGoto(c, "kfree_34")
            /\ Takes(a)
            /\ UNCHANGED <<kpanicked, r>>
  /\ UNCHANGED <<ref, freelist, pgnext, kret>>
  /\ UNCHANGED biovars

\* kfree, lines 72-82: the check, acquire, and subref's read of the count
kfree(c, a) ==
  /\ KCall(c)
  /\ IF a % PGSIZE # 0 \/ a < end \/ a >= PHYSTOP
       THEN /\ kpanicked' = "kfree"
            /\ UNCHANGED <<kmemlock, kpc, klocals, owners, misused>>
       ELSE /\ kmemlock = 0
            /\ kmemlock' = c
            /\ pa' = [pa EXCEPT ![c] = a]
            /\ count' = [count EXCEPT ![c] = getref(a)]
            /\ KGoto(c, "kfree_34")
            /\ Takes(a)
            /\ UNCHANGED <<kpanicked, r>>
  /\ UNCHANGED <<ref, freelist, pgnext, kret>>
  /\ UNCHANGED biovars

\* kfree, line 82: subref's test and store
kfree_subref(c) ==
  /\ KRunning
  /\ kpc[c] = "kfree_34"
  /\ ref' = IF count[c] > 0
              THEN [ref EXCEPT ![pa[c] \div PGSIZE] = count[c] - 1]
              ELSE ref
  /\ KGoto(c, "kfree_83")
  /\ UNCHANGED <<freelist, pgnext, kmemlock, kpanicked, klocals, kret, owners,
                 misused, kcalls>>
  /\ UNCHANGED biovars

\* kfree without the test of line 83
kfree_push_always(c) ==
  /\ KRunning
  /\ kpc[c] = "kfree_83"
  /\ pgnext' = [pgnext EXCEPT ![pa[c]] = freelist]
  /\ freelist' = pa[c]
  /\ kmemlock' = 0
  /\ KReturn(c)
  /\ UNCHANGED <<ref, kpanicked, kret, owners, misused, kcalls>>
  /\ UNCHANGED biovars

\* kfree, lines 83-90
kfree_push(c) ==
  /\ KRunning
  /\ kpc[c] = "kfree_83"
  /\ IF getref(pa[c]) = 0
       THEN /\ pgnext' = [pgnext EXCEPT ![pa[c]] = freelist]
            /\ freelist' = pa[c]
       ELSE UNCHANGED <<pgnext, freelist>>
  /\ kmemlock' = 0
  /\ KReturn(c)
  /\ UNCHANGED <<ref, kpanicked, kret, owners, misused, kcalls>>
  /\ UNCHANGED biovars

\* kalloc that treats an empty free list as fatal
kalloc_fatal(c) ==
  /\ KCall(c)
  /\ kmemlock = 0
  /\ IF freelist = 0 \/ freelist = JUNK
       THEN /\ kpanicked' = "kalloc"
            /\ kmemlock' = c
            /\ UNCHANGED <<kpc, klocals, kret>>
       ELSE /\ kmemlock' = c
            /\ r' = [r EXCEPT ![c] = freelist]
            /\ count' = [count EXCEPT ![c] = getref(freelist)]
            /\ KGoto(c, "kalloc_103")
            /\ UNCHANGED <<kpanicked, pa, kret>>
  /\ UNCHANGED <<ref, freelist, pgnext, owners, misused>>
  /\ UNCHANGED biovars

\* kalloc, lines 100-103 and 106-110 for r = 0: acquire, r = kmem.freelist and
\* addref's read of the count.  A free list that ends in the junk of a memset
\* makes addref(r) fault.
kalloc(c) ==
  /\ KCall(c)
  /\ kmemlock = 0
  /\ IF freelist = 0
       THEN /\ kret' = [kret EXCEPT ![c] = 0]
            /\ UNCHANGED <<kmemlock, kpanicked, kpc, klocals>>
       ELSE IF freelist = JUNK
         THEN /\ kpanicked' = "kerneltrap"
              /\ kmemlock' = c
              /\ UNCHANGED <<kpc, klocals, kret>>
         ELSE /\ kmemlock' = c
              /\ r' = [r EXCEPT ![c] = freelist]
              /\ count' = [count EXCEPT ![c] = getref(freelist)]
              /\ KGoto(c, "kalloc_103")
              /\ UNCHANGED <<kpanicked, pa, kret>>
  /\ UNCHANGED <<ref, freelist, pgnext, owners, misused>>
  /\ UNCHANGED biovars

\* kalloc, lines 103-106: addref's store, kmem.freelist = r->next, release
kalloc_addref(c) ==
  /\ KRunning
  /\ kpc[c] = "kalloc_103"
  /\ ref' = [ref EXCEPT ![r[c] \div PGSIZE] = count[c] + 1]
  /\ freelist' = pgnext[r[c]]
  /\ kmemlock' = 0
  /\ KGoto(c, "kalloc_109")
  /\ UNCHANGED <<pgnext, kpanicked, klocals, kret, owners, misused, kcalls>>
  /\ UNCHANGED biovars

\* kalloc, lines 108-110: the memset overwrites r->next; return r
kalloc_memset(c) ==
  /\ KRunning
  /\ kpc[c] = "kalloc_109"
  /\ pgnext' = [pgnext EXCEPT ![r[c]] = JUNK]
  /\ kret' = [kret EXCEPT ![c] = r[c]]
  /\ owners' = [owners EXCEPT ![r[c]] = @ + 1]
  /\ KReturn(c)
  /\ UNCHANGED <<ref, freelist, kmemlock, kpanicked, misused, kcalls>>
  /\ UNCHANGED biovars

\* the number of nodes the loop of kfreemem counts from node p: JUNK when it
\* runs into a junk pointer, -2 when it does not end
RECURSIVE freenodes(_, _)
freenodes(p, fuel) ==
  IF p = 0 THEN 0
  ELSE IF p = JUNK THEN JUNK
  ELSE IF fuel = 0 THEN -2
  ELSE LET n == freenodes(pgnext[p], fuel - 1)
       IN IF n < 0 THEN n ELSE n + 1

\* kfreemem, line 118
kfreemem(c) ==
  /\ KCall(c)
  /\ kmemlock = 0
  /\ kmemlock' = c
  /\ KGoto(c, "kfreemem_119")
  /\ UNCHANGED <<ref, freelist, pgnext, kpanicked, klocals, kret, owners, misused>>
  /\ UNCHANGED biovars

\* kfreemem, lines 119-125; a loop that does not end keeps the lock
kfreemem_walk(c) ==
  /\ KRunning
  /\ kpc[c] = "kfreemem_119"
  /\ LET n == freenodes(freelist, NPAGE + 1)
     IN /\ n # -2
        /\ IF n = JUNK
             THEN /\ kpanicked' = "kerneltrap"
                  /\ UNCHANGED <<kmemlock, kpc, klocals, kret>>
             ELSE /\ kmemlock' = 0
                  /\ KReturn(c)
                  /\ UNCHANGED <<kpanicked, kret>>
  /\ UNCHANGED <<ref, freelist, pgnext, owners, misused, kcalls>>
  /\ UNCHANGED biovars

KStep(c) ==
  \/ kalloc(c)
  \/ kalloc_addref(c)
  \/ kalloc_memset(c)
  \/ \E a \in Addrs : kfree(c, a)
  \/ kfree_subref(c)
  \/ kfree_push(c)
  \/ \E p \in Pages : addref(c, p)
  \/ addref_store(c)
  \/ \E p \in Pages : subref(c, p)
  \/ subref_store(c)
  \/ kfreemem(c)
  \/ kfreemem_walk(c)

KNext == \E c \in Ctx : KStep(c)

SpecK == Init /\ [][KNext]_vars

\* the allocator called with kalloc, kfree and kfreemem only
KFStep(c) ==
  \/ kalloc(c)
  \/ kalloc_addref(c)
  \/ kalloc_memset(c)
  \/ \E a \in Addrs : kfree(c, a)
  \/ kfree_subref(c)
  \/ kfree_push(c)
  \/ kfreemem(c)
  \/ kfreemem_walk(c)

KFNext == \E c \in Ctx : KFStep(c)

SpecKF == Init /\ [][KFNext]_vars

\* the allocator called by one context at a time, with kalloc, and with addref
\* and kfree on pages the caller holds a reference to
Alone(c) == \A o \in Ctx \ {c} : kpc[o] = "idle"

KSeqStep(c) ==
  \/ Alone(c) /\ kalloc(c)
  \/ Alone(c) /\ kalloc_addref(c)
  \/ Alone(c) /\ kalloc_memset(c)
  \/ \E p \in Pages : Alone(c) /\ owners[p] > 0 /\ kfree(c, p)
  \/ Alone(c) /\ kfree_subref(c)
  \/ Alone(c) /\ kfree_push(c)
  \/ \E p \in Pages : Alone(c) /\ owners[p] > 0 /\ addref(c, p)
  \/ Alone(c) /\ addref_store(c)
  \/ Alone(c) /\ kfreemem(c)
  \/ Alone(c) /\ kfreemem_walk(c)

KSeqNext == \E c \in Ctx : KSeqStep(c)

SpecKSeq == Init /\ [][KSeqNext]_vars

\* ------------------------------------------------------------------ properties
\* the buffers on the list of bucket k, following next from the head
RECURSIVE Walk(_, _, _)
Walk(h, n, fuel) ==
  IF n = h \/ n = NULL \/ fuel = 0
    THEN {}
    ELSE {n} \cup Walk(h, next[n], fuel - 1)
ListOf(k) == Walk(bucket(k), next[bucket(k)], NBUF + NBUCKET)
Linked(n) == \E k \in 0..(NBUCKET - 1) : n \in ListOf(k)
Bound(n) == refcnt[n] # 0 \/ Linked(n)
SameBlock(m, n) == dev[m] = dev[n] /\ blockno[m] = blockno[n]

\* C1: at every instant at most one bound buffer (refcnt nonzero, or linked
\* in a bucket list) carries a given (dev, blockno).
C1_UniqueBound ==
  \A m, n \in Bufs : (m # n /\ Bound(m) /\ Bound(n)) => ~SameBlock(m, n)

\* the step of context c is the rebinding of lines 93-102
Recycles(c) == pc[c] = "bget_93" /\ pc'[c] = "bget_103"
\* the step of context c is bget's acquiresleep: bget returns b[c] to bread
BgetReturns(c) == pc[c] \in {"bget_76", "bget_103"} /\ pc'[c] # pc[c]
\* the step of context c is bread's return of b[c] to the caller
BreadReturns(c) ==
  pc[c] \in {"bget_76", "bget_103", "bread_117"} /\ pc'[c] = "idle"
\* context c is inside brelse(n), between releasesleep and the end
Releasing(c, n) ==
  pc[c] \in {"brelse_142", "brelse_144", "brelse_147", "brelse_151"} /\ b[c] = n

\* C2: from bget's return of b to a context until that context's brelse(b),
\* b carries the requested (dev, blockno), is not rebound and its sleep lock
\* does not change hands; no recycling step reassigns a buffer that a lookup
\* or a release of another context is operating on.
C2_HeldIdentity ==
  [][/\ \A c \in Ctx : BgetReturns(c) =>
           (dev'[b[c]] = rdev[c] /\ blockno'[b[c]] = rblockno[c])
     /\ \A n \in Bufs : (lockp[n] # 0 /\ lockp'[n] = lockp[n]) =>
           (dev'[n] = dev[n] /\ blockno'[n] = blockno[n])
     /\ \A n \in Bufs : (lockp[n] # 0 /\ lockp'[n] # lockp[n]) => lockp'[n] = 0
     /\ \A c \in Ctx : Recycles(c) =>
           ~\E o \in Ctx \ {c} :
               \/ Releasing(o, b[c])
               \/ (pc[o] = "bget_76" /\ b[o] = b[c])
    ]_vars

\* C3: a buffer that was filled and released to refcnt 0 stays bound until it
\* is recycled for another block: bget does not take the "not cached" path
\* (which rebinds a buffer with valid = 0 and makes bread read the disk) for a
\* block that a zero-refcnt buffer with valid = 1 still carries.
C3_HitAfterRelease ==
  \A c \in Ctx : pc[c] = "bget_83" =>
    ~\E n \in Bufs : /\ refcnt[n] = 0
                     /\ valid[n] = 1
                     /\ dev[n] = rdev[c]
                     /\ blockno[n] = rblockno[c]

\* C4: between operations (every context idle) the refcnt of every buffer is
\* the number of bget returns not yet matched by brelse (the holder of its
\* sleep lock) plus the number of bpin calls not yet matched by bunpin.
C4_RefAccounting ==
  (\A c \in Ctx : pc[c] = "idle") =>
    \A n \in Bufs : refcnt[n] = (IF lockp[n] # 0 THEN 1 ELSE 0) + pinned[n]

\* C5: the buffer a miss rebinds has refcnt 0 and the smallest stamp among
\* the zero-refcnt buffers at that moment, the lowest pool index winning
\* among equal stamps, and its stamp is that of its latest release: no brelse
\* that has brought its count to 0 is still on its way to line 151.
C5_LRU ==
  [][\A c \in Ctx : Recycles(c) =>
       /\ refcnt[b[c]] = 0
       /\ \A m \in Bufs : refcnt[m] = 0 =>
            \/ bticks[b[c]] < bticks[m]
            \/ (bticks[b[c]] = bticks[m] /\ b[c] <= m)
       /\ ~\E o \in Ctx : pc[o] \in {"brelse_147", "brelse_151"} /\ b[o] = b[c]
    ]_vars

\* C6: a buffer whose refcnt is nonzero is never rebound by the recycling
\* step of bget.
C6_NoRecycleReferenced ==
  [][\A c \in Ctx : Recycles(c) => refcnt[b[c]] = 0]_vars

C8_PanicIffFull ==
  /\ panicked = "bget: no buffers" => \A n \in Bufs : refcnt[n] # 0
  /\ \A c \in Ctx : pc[c] = "bget_93" => \E n \in Bufs : refcnt[n] = 0

\* C9: bwrite(b) and brelse(b) by a context that does not hold b's sleep lock
\* panic and change nothing else; bwrite by the holder writes b's data to b's
\* block and leaves the lock, valid and refcnt as they are, and nothing else
\* writes the disk.
C9_LockDiscipline ==
  [][/\ \A c \in Ctx, n \in Bufs :
          ~holdingsleep(c, n) =>
             /\ bwrite(c, n) => panicked' = "bwrite"
             /\ brelse(c, n) => panicked' = "brelse"
     /\ (panicked = "" /\ panicked' \in {"bwrite", "brelse"}) =>
          UNCHANGED <<bufvars, linkvars, lockvars, ticks, disk, pc, locals, pinned>>
     /\ disk' # disk =>
          /\ \E n \in Bufs :
               /\ lockp[n] # 0 /\ pc[lockp[n]] = "idle"
               /\ disk' = [disk EXCEPT ![<<dev[n], blockno[n]>>] = data[n]]
          /\ UNCHANGED <<bufvars, linkvars, lockvars, panicked>>
     /\ \A c \in Ctx, n \in Bufs :
          (bwrite(c, n) /\ holdingsleep(c, n)) =>
             /\ disk' = [disk EXCEPT ![<<dev[n], blockno[n]>>] = data[n]]
             /\ UNCHANGED <<bufvars, linkvars, lockvars, panicked>>
    ]_vars

\* C9: a holder has written modified contents to the disk, and a later bwrite
\* by a context that holds no lock has halted the kernel.
C9_Witness ==
  /\ panicked = "bwrite"
  /\ \E k \in Keys : disk[k] = 1
  /\ \E n \in Bufs : lockp[n] # 0

\* C10: over all slots of the pool, released ones included, at most one
\* buffer has valid = 1 together with a given (dev, blockno).
C10_UniqueValid ==
  \A m, n \in Bufs : (m # n /\ valid[m] = 1 /\ valid[n] = 1) => ~SameBlock(m, n)

\* ------------------------------------------------------------------ properties of kalloc.c
\* the pages on the free list, following run.next from node p
RECURSIVE FreeFrom(_, _)
FreeFrom(p, fuel) ==
  IF p = 0 \/ p = JUNK \/ fuel = 0
    THEN {}
    ELSE {p} \cup FreeFrom(pgnext[p], fuel - 1)
FreePages == FreeFrom(freelist, NPAGE + 1)
\* no context is inside the allocator
KIdle == \A c \in Ctx : kpc[c] = "idle"

\* C11: after kinit and any sequence of completed kalloc, kfree, addref and
\* subref calls, each made on a page by a caller that holds a reference to
\* it, a page is on the free list if and only if its count is 0, and no
\* count is negative.
C11_FreeIffZero ==
  (KIdle /\ ~misused) =>
    \A p \in Pages : /\ (p \in FreePages <=> getref(p) = 0)
                     /\ getref(p) >= 0

\* C12: under kalloc and kfree calls with valid page addresses (a kfree of a
\* page whose count is already 0 included), between operations the free list
\* is a list without repetition that ends in 0, each page is either on it or
\* allocated and never both, and kalloc does not return a page that is
\* allocated to an owner.
C12_Conservation ==
  /\ KIdle =>
       /\ freenodes(freelist, NPAGE + 1) = Cardinality(FreePages)
       /\ \A p \in Pages : p \in FreePages <=> owners[p] = 0
       /\ Cardinality(FreePages) + Cardinality({p \in Pages : owners[p] > 0}) = NPAGE
  /\ \A c \in Ctx : kpc[c] = "kalloc_109" => owners[r[c]] = 0

\* C13: with one caller at a time that holds a reference to the page it
\* names: kalloc returns a page with count exactly 1; addref raises the count
\* by one; kfree lowers it by exactly one and pushes the page only when that
\* brings it to 0; a page with k owners has count k and is off the free list,
\* and a page without owner is on it, the page of the last kfree at the head,
\* where the next kalloc takes it.
C13_PageSharing ==
  /\ [](KIdle => \A p \in Pages :
          /\ getref(p) = owners[p]
          /\ p \in FreePages <=> owners[p] = 0)
  /\ [][\A c \in Ctx :
          /\ (kpc[c] = "kalloc_109" /\ kpc'[c] = "idle") =>
               /\ kret'[c] = r[c]
               /\ getref(r[c]) = 1
               /\ r[c] \notin FreePages
          /\ (kpc[c] = "addref_28" /\ kpc'[c] = "idle") =>
               ref' = [ref EXCEPT ![pa[c] \div PGSIZE] = @ + 1]
          /\ (kpc[c] = "kfree_83" /\ kpc'[c] = "idle") =>
               /\ getref(pa[c]) = count[c] - 1
               /\ pa[c] \notin FreePages
               /\ IF count[c] = 1
                    THEN freelist' = pa[c] /\ FreePages' = FreePages \cup {pa[c]}
                    ELSE freelist' = freelist /\ pgnext' = pgnext
          /\ (kpc[c] = "idle" /\ kpc'[c] = "kalloc_103") => r'[c] = freelist
       ]_vars

\* C13: a kfree of a page with two owners is about to return without pushing
\* the page, after kalloc, addref and the first half of kfree.
C13_Witness ==
  \E c \in Ctx : /\ kpc[c] = "kfree_83"
                 /\ count[c] = 2
                 /\ getref(pa[c]) = 1
                 /\ owners[pa[c]] = 1

\* C14: kalloc called with an empty free list returns 0 at once, does not
\* panic and leaves the free list, the pages and every count as they are;
\* called with a non-empty free list it does not return 0: what it returns is
\* the head of the list.
C14_Exhaustion ==
  [][\A c \in Ctx :
       /\ (kalloc(c) /\ freelist = 0) =>
            /\ kret'[c] = 0
            /\ kpc'[c] = "idle"
            /\ UNCHANGED <<ref, freelist, pgnext, kmemlock, kpanicked, owners>>
       /\ (kalloc(c) /\ freelist # 0) => (kpc'[c] # "idle" \/ kpanicked' # "")
       /\ kret'[c] # kret[c] =>
            \/ kalloc(c) /\ freelist = 0 /\ kret'[c] = 0
            \/ kpc[c] = "kalloc_109" /\ kret'[c] = r[c] /\ r[c] \in Pages
    ]_vars

\* C14: a kalloc has returned 0 from an empty free list and the kernel runs on
C14_Witness ==
  \E c \in Ctx : /\ kret[c] = 0
                 /\ kpc[c] = "idle"
                 /\ freelist = 0
                 /\ kpanicked = ""

\* C15: kfree(pa) panics when pa is not a multiple of PGSIZE, is below the
\* first managed page or is at or above PHYSTOP, with every count, the free
\* list, the pages and the lock as they were; for an aligned address in the
\* range it does not panic, and nothing else panics with "kfree".
C15_AddressCheck ==
  [][/\ \A c \in Ctx, a \in Addrs :
          kfree(c, a) =>
            IF a % PGSIZE # 0 \/ a < PGROUNDUP(end) \/ a >= PHYSTOP
              THEN /\ kpanicked' = "kfree"
                   /\ UNCHANGED <<ref, freelist, pgnext, kmemlock, kpc, klocals, owners>>
              ELSE kpanicked' = ""
     /\ (kpanicked = "" /\ kpanicked' = "kfree") =>
          \E c \in Ctx, a \in Addrs \ Pages : kfree(c, a)
    ]_vars

\* C15: kfree of a bad address has halted the kernel while a page is
\* allocated and another context is inside the allocator with the lock held
C15_Witness ==
  /\ kpanicked = "kfree"
  /\ kmemlock # 0
  /\ \E p \in Pages : owners[p] > 0

\* C17: when the callers of addref, subref and kfree hold a reference to the
\* page they name, then after the calls have completed the count of every
\* page is the number of references handed out by kalloc and addref and not
\* given back with kfree or subref, and a page somebody holds a reference to
\* is not on the free list.
C17_NoLostUpdate ==
  (KIdle /\ ~misused) =>
    \A p \in Pages : /\ getref(p) = owners[p]
                     /\ owners[p] > 0 => p \notin FreePages

\* ------------------------------------------------------------------ more properties of bio.c
\* following next from node n leads back to the head h
RECURSIVE Closes(_, _, _)
Closes(h, n, fuel) ==
  IF n = h THEN TRUE
  ELSE IF n = NULL \/ fuel = 0 THEN FALSE
  ELSE Closes(h, next[n], fuel - 1)
\* the list of bucket k is a circular doubly linked list through its head
WellFormed(k) ==
  /\ Closes(bucket(k), next[bucket(k)], NBUF + 1)
  /\ \A n \in ListOf(k) \cup {bucket(k)} : prev[next[n]] = n
Idle == \A c \in Ctx : pc[c] = "idle"

\* C16: between operations every bucket list is a well-formed circular doubly
\* linked list through its head, a buffer with a nonzero count is linked in
\* the list of bucket blockno % NBUCKET and in no other, and a buffer whose
\* count is 0 is linked in no list.
C16_ListIntegrity ==
  (Idle /\ Running) =>
    /\ \A k \in 0..(NBUCKET - 1) : WellFormed(k)
    /\ \A n \in Bufs, k \in 0..(NBUCKET - 1) :
         n \in ListOf(k) <=> (refcnt[n] # 0 /\ k = blockno[n] % NBUCKET)

\* the bucket locks context c holds
HeldBuckets(c) == {k \in 0..(NBUCKET - 1) : bucketlock[k] = c}
\* the holder of the spin lock context c is spinning on, 0 when c is not at
\* an acquire or the lock is free
WaitsOn(c) ==
  IF pc[c] = "bget_71" THEN bucketlock[key[c]]
  ELSE IF pc[c] = "bget_83" THEN bcachelock
  ELSE IF pc[c] = "brelse_142" THEN bucketlock[BlocknoOf(b[c]) % NBUCKET]
  ELSE 0
\* context x, or one that x is spinning behind, is context c
RECURSIVE SpinsBehind(_, _, _)
SpinsBehind(x, c, fuel) ==
  IF x = 0 \/ fuel = 0 THEN FALSE
  ELSE IF x = c THEN TRUE
  ELSE SpinsBehind(WaitsOn(x), c, fuel - 1)

\* C18: a context holds at most one bucket lock, holds bcache.lock only
\* together with the lock of its target bucket, takes no bucket lock while it
\* holds bcache.lock, holds no spin lock when it calls acquiresleep, and no
\* contexts spin in a cycle, each on a spin lock that the next one holds.
C18_LockOrder ==
  /\ [](\A c \in Ctx :
          /\ HeldBuckets(c) \subseteq {key[c]}
          /\ bcachelock = c => bucketlock[key[c]] = c
          /\ pc[c] \in {"bget_76", "bget_103"} =>
               (HeldBuckets(c) = {} /\ bcachelock # c)
          /\ ~SpinsBehind(WaitsOn(c), c, NCTX))
  /\ [][/\ bcachelock' # bcachelock =>
             \A c \in Ctx : bcachelock' = c => bucketlock[key[c]] = c
        /\ bucketlock' # bucketlock =>
             \A c \in Ctx :
               (\E k \in 0..(NBUCKET - 1) : bucketlock'[k] = c /\ bucketlock[k] # c) =>
                  (HeldBuckets(c) = {} /\ bcachelock # c)
        /\ lockp' # lockp =>
             \A c \in Ctx :
               (\E n \in Bufs : lockp'[n] = c /\ lockp[n] # c) =>
                  (HeldBuckets(c) = {} /\ bcachelock # c)
       ]_vars

\* C18: a context scans the pool with bcache.lock and its bucket lock held
\* while another context, holding the lock of another bucket, spins on
\* bcache.lock
C18_Witness ==
  \E c, o \in Ctx :
    /\ bcachelock = c
    /\ pc[c] = "bget_85"
    /\ pc[o] = "bget_83"
    /\ HeldBuckets(o) # {} /\ HeldBuckets(o) # HeldBuckets(c)

\* C19: under fair scheduling, if every buffer's sleep lock is free again and
\* again (every holder calls brelse), every call of bread leads to its return
\* or to a panic.
C19_AcquireCompletes ==
  (\A n \in Bufs : []<>(lockp[n] = 0)) =>
    \A c \in Ctx : (pc[c] = "bget_71") ~> (pc[c] = "idle" \/ panicked # "")

=============================================================================
